---- MODULE Spec2Model ----
(***************************************************************************)
(* IQAir crawler (crawl_iqair.py) and chart script (generate_chart.py).    *)
(*                                                                         *)
(* Text is a sequence of one-character strings.  None is a one-element     *)
(* sequence holding a token that is not a character.  A path such as an    *)
(* icon src is the sequence of its segments between "/" characters.        *)
(***************************************************************************)
EXTENDS Integers, Sequences, FiniteSets, TLC

VARIABLES
    pc,          \* position of crawl_all_cities (or of the driver of a pure function)
    cityIdx,     \* position of `for city in CITIES` (0 before the first city)
    attempt,     \* value of `attempt` in `for attempt in range(max_retries)`
    success,     \* local `success`
    playwright,  \* the driver handle: "none", "started", "stopped"
    browser,     \* the browser: "none", "open", "closed"
    page,        \* the content of the page loaded in the browser of this attempt
    data,        \* local `data` (the record returned by crawl_city_data, or None)
    results,     \* local `results`
    files,       \* the file system under result/: path -> sequence of lines
    clock,       \* the wall clock, in instants
    outcome,     \* how the current attempt ended: "none", "written", "rejected", "exception"
    saveFaults,  \* number of save_to_csv calls that raised
    slept,       \* number of time_module.sleep(2) calls made for the current city
    visited,     \* the cities whose loop body was entered, in order
    calls,       \* the save_to_csv calls that returned, in order: <<path, line>>
    arg,         \* the input of the function under test
    ret          \* its result

vars == <<pc, cityIdx, attempt, success, playwright, browser, page, data, results,
          files, clock, outcome, saveFaults, slept, visited, calls, arg, ret>>

crawlVars == <<cityIdx, attempt, success, playwright, browser, page, data, results,
               outcome, saveFaults, slept, visited>>

----------------------------------------------------------------------------
(* Bounds of the model *)

MaxAqiLen == 3
NumCities == 2
MaxTicks == 1
InstantsPerMonth == 1
MaxSaveFaults == 1
MaxCalls == 3
MaxRows == 2
MaxDay == 32

----------------------------------------------------------------------------
(* Text helpers *)

None == <<"None">>

Truthy(v) == v # None /\ v # <<>>

Digits == {"0", "1", "2", "3", "4", "5", "6", "7", "8", "9"}

IsDigit(c) == c \in Digits

\* \s : the blank and the tab stand for every whitespace character
IsSpace(c) == c \in {" ", "\t"}

DigitVal(c) ==
    CASE c = "0" -> 0 [] c = "1" -> 1 [] c = "2" -> 2 [] c = "3" -> 3
      [] c = "4" -> 4 [] c = "5" -> 5 [] c = "6" -> 6 [] c = "7" -> 7
      [] c = "8" -> 8 [] c = "9" -> 9

DigitChar(d) == <<"0", "1", "2", "3", "4", "5", "6", "7", "8", "9">>[d + 1]

\* int(s) for a non-empty string of digits
RECURSIVE ParseInt(_)
ParseInt(s) ==
    IF s = <<>> THEN 0
    ELSE ParseInt(SubSeq(s, 1, Len(s) - 1)) * 10 + DigitVal(s[Len(s)])

\* str(n) for n >= 0
RECURSIVE IntToStr(_)
IntToStr(n) ==
    IF n < 10 THEN <<DigitChar(n)>>
    ELSE Append(IntToStr(n \div 10), DigitChar(n % 10))

\* s[i:j] with 1-based inclusive bounds, empty when j < i
Slice(s, i, j) == IF j < i THEN <<>> ELSE SubSeq(s, i, j)

\* first index >= i of s that holds no digit (Len(s) + 1 if there is none)
SkipDigits(s, i) ==
    LET stop == {k \in i..Len(s) : ~IsDigit(s[k])}
    IN  IF stop = {} THEN Len(s) + 1 ELSE CHOOSE k \in stop : \A m \in stop : k <= m

\* first index >= i of s that holds no whitespace (Len(s) + 1 if there is none)
SkipSpaces(s, i) ==
    LET stop == {k \in i..Len(s) : ~IsSpace(s[k])}
    IN  IF stop = {} THEN Len(s) + 1 ELSE CHOOSE k \in stop : \A m \in stop : k <= m

\* last index of s that holds no whitespace (0 if there is none)
LastNonSpace(s) ==
    LET stop == {k \in 1..Len(s) : ~IsSpace(s[k])}
    IN  IF stop = {} THEN 0 ELSE CHOOSE k \in stop : \A m \in stop : k >= m

\* str.strip()
Strip(s) == Slice(s, SkipSpaces(s, 1), LastNonSpace(s))

\* str.startswith, at offset i
HasAt(s, i, lit) ==
    /\ i + Len(lit) - 1 <= Len(s)
    /\ \A k \in 1..Len(lit) : s[i + k - 1] = lit[k]

StartsWith(s, prefix) == HasAt(s, 1, prefix)

KmH == <<"k", "m", "/", "h">>
Mph == <<"m", "p", "h">>

----------------------------------------------------------------------------
(* Field validators *)

\* variant: upper limit exclusive
validate_aqi_lt(aqi) ==
    LET ds == SelectSeq(aqi, IsDigit)
    IN  IF ds = <<>> THEN None
        ELSE IF 0 <= ParseInt(ds) /\ ParseInt(ds) < 500
             THEN IntToStr(ParseInt(ds)) ELSE None

\* re.sub(r'\D', '', aqi), int(...) raising ValueError on '', range check, str(...)
validate_aqi(aqi) ==
    LET ds == SelectSeq(aqi, IsDigit)
    IN  IF ds = <<>> THEN None
        ELSE IF 0 <= ParseInt(ds) /\ ParseInt(ds) <= 500
             THEN IntToStr(ParseInt(ds)) ELSE None

IconPrefixNew == <<"", "dl", "assets", "svg", "weather">>
IconPrefixOld == <<"", "dl", "web", "weather">>

\* icon.startswith(p + '/') on the "/"-split form: the segments of p, then one more
validate_weather_icon(icon) ==
    IF Truthy(icon)
       /\ \/ (StartsWith(icon, IconPrefixNew) /\ Len(icon) > Len(IconPrefixNew))
          \/ (StartsWith(icon, IconPrefixOld) /\ Len(icon) > Len(IconPrefixOld))
    THEN icon ELSE None

\* ^\d+(\.\d+)? matched at the start of s: the index after the number, 0 if no match
NumberEnd(s) ==
    LET a == SkipDigits(s, 1)
        b == SkipDigits(s, a + 1)
    IN  IF a = 1 THEN 0
        ELSE IF a <= Len(s) /\ s[a] = "." /\ b > a + 1 THEN b ELSE a

\* ^\d+(\.\d+)?\s*(km/h|mph)$ against s; "" when it does not match
WindUnit(s) ==
    LET e == NumberEnd(s)
        u == IF e = 0 THEN 0 ELSE SkipSpaces(s, e)
    IN  IF e = 0 THEN <<>>
        ELSE IF Slice(s, u, Len(s)) = KmH THEN KmH
        ELSE IF Slice(s, u, Len(s)) = Mph THEN Mph
        ELSE <<>>

\* f"{value * 1.60934:.1f} km/h" for the decimal number at the start of s
MphToKmh(s) ==
    LET a == SkipDigits(s, 1)
        e == NumberEnd(s)
        whole == ParseInt(Slice(s, 1, a - 1))
        frac == Slice(s, a + 1, e - 1)
        scale == IF e = a THEN 1 ELSE 10 ^ Len(frac)
        num == (whole * scale + (IF e = a THEN 0 ELSE ParseInt(frac))) * 160934
        den == scale * 10000
        tenths == (num + den \div 2) \div den
    IN  IntToStr(tenths \div 10) \o <<".", DigitChar(tenths % 10)>> \o <<" ">> \o KmH

validate_wind_speed(speed) ==
    LET s == Strip(speed)
    IN  IF WindUnit(s) = <<>> THEN None
        ELSE IF WindUnit(s) = Mph THEN MphToKmh(s)
        ELSE s

\* re.match(r'^\d{1,3}%$', humidity.strip())
validate_humidity(humidity) ==
    LET s == Strip(humidity)
        d == SkipDigits(s, 1)
    IN  IF d \in 2..4 /\ d = Len(s) /\ s[d] = "%" THEN s ELSE None

----------------------------------------------------------------------------
(* Field extraction, crawl_city_data *)

\* re.search(r'^(\d+)', box_text).group(1)
ExtractAqi(text) ==
    IF SkipDigits(text, 1) = 1 THEN None ELSE Slice(text, 1, SkipDigits(text, 1) - 1)

\* (\d+\.?\d*)\s*km/h matched at index i: the index of its last character, 0 if no match
WindMatchEnd(text, i) ==
    LET a == SkipDigits(text, i)
        b == IF a <= Len(text) /\ text[a] = "." THEN a + 1 ELSE a
        w == SkipSpaces(text, SkipDigits(text, b))
    IN  IF a > i /\ HasAt(text, w, KmH) THEN w + Len(KmH) - 1 ELSE 0

\* re.search(r'(\d+\.?\d*)\s*km/h', box_text).group(0)
ExtractWind(text) ==
    LET hits == {i \in 1..Len(text) : WindMatchEnd(text, i) # 0}
        first == CHOOSE i \in hits : \A j \in hits : i <= j
    IN  IF hits = {} THEN None ELSE Slice(text, first, WindMatchEnd(text, first))

\* (\d{1,3})\s*% matched at index i: the index of its last character, 0 if no match
HumidityMatchEnd(text, i) ==
    LET a == SkipDigits(text, i)
        w == SkipSpaces(text, a)
    IN  IF a > i /\ a - i <= 3 /\ w <= Len(text) /\ text[w] = "%" THEN w ELSE 0

\* re.search(r'(\d{1,3})\s*%', box_text).group(0).replace(' ', '')
ExtractHumidity(text) ==
    LET hits == {i \in 1..Len(text) : HumidityMatchEnd(text, i) # 0}
        first == CHOOSE i \in hits : \A j \in hits : i <= j
        IsNotBlank(c) == c # " "
    IN  IF hits = {} THEN None
        ELSE SelectSeq(Slice(text, first, HumidityMatchEnd(text, first)), IsNotBlank)

\* get_vietnam_time(): the calendar fields of the clock (UTC+7)
get_vietnam_time(now) ==
    [year  |-> 2024 + (now \div InstantsPerMonth) \div 12,
     month |-> ((now \div InstantsPerMonth) % 12) + 1,
     inst  |-> now % InstantsPerMonth]

\* datetime.isoformat(): year, month, rest of the timestamp
isoformat(t) == <<t.year, t.month, t.inst>>

\* the None that crawl_city_data returns in place of a record
NoData == [none |-> TRUE]

\* variant: a record is built as soon as one field validates
crawl_city_data_any(p, city, now) ==
    IF p.box = None THEN NoData
    ELSE
    LET aqi_raw == ExtractAqi(p.box)
        wind_speed_raw == ExtractWind(p.box)
        humidity_raw == ExtractHumidity(p.box)
        aqi == IF Truthy(aqi_raw) THEN validate_aqi(aqi_raw) ELSE None
        weather_icon == validate_weather_icon(p.icon)
        wind_speed == IF Truthy(wind_speed_raw) THEN validate_wind_speed(wind_speed_raw) ELSE None
        humidity == IF Truthy(humidity_raw) THEN validate_humidity(humidity_raw) ELSE None
    IN  IF ~(Truthy(aqi) \/ Truthy(weather_icon) \/ Truthy(wind_speed) \/ Truthy(humidity))
        THEN NoData
        ELSE [timestamp |-> isoformat(get_vietnam_time(now)),
              city |-> city.display_name,
              aqi |-> aqi,
              weather_icon |-> weather_icon,
              wind_speed |-> wind_speed,
              humidity |-> humidity]

\* crawl_city_data once the page is loaded: p.box is the text of the AQI box (None
\* when query_selector finds none), p.icon the src of the weather img (None if absent)
crawl_city_data(p, city, now) ==
    IF p.box = None THEN NoData
    ELSE
    LET aqi_raw == ExtractAqi(p.box)
        wind_speed_raw == ExtractWind(p.box)
        humidity_raw == ExtractHumidity(p.box)
        aqi == IF Truthy(aqi_raw) THEN validate_aqi(aqi_raw) ELSE None
        weather_icon == validate_weather_icon(p.icon)
        wind_speed == IF Truthy(wind_speed_raw) THEN validate_wind_speed(wind_speed_raw) ELSE None
        humidity == IF Truthy(humidity_raw) THEN validate_humidity(humidity_raw) ELSE None
    IN  IF ~(Truthy(aqi) /\ Truthy(weather_icon) /\ Truthy(wind_speed) /\ Truthy(humidity))
        THEN NoData
        ELSE [timestamp |-> isoformat(get_vietnam_time(now)),
              city |-> city.display_name,
              aqi |-> aqi,
              weather_icon |-> weather_icon,
              wind_speed |-> wind_speed,
              humidity |-> humidity]

----------------------------------------------------------------------------
(* save_to_csv *)

MonthAbbr == <<"jan", "feb", "mar", "apr", "may", "jun",
               "jul", "aug", "sep", "oct", "nov", "dec">>

headers == <<"timestamp", "city", "aqi", "weather_icon", "wind_speed", "humidity">>

HeaderLine == [kind |-> "header", cells |-> headers]

\* csv.DictWriter.writerow(data): the cells in the order of fieldnames
RowLine(d) ==
    [kind |-> "row",
     cells |-> <<d.timestamp, d.city, d.aqi, d.weather_icon, d.wind_speed, d.humidity>>]

\* result/<city_name>/aqi_<city_name>_<year>_<mon>.csv
FilePath(city_name, now) ==
    [city |-> city_name,
     year |-> get_vietnam_time(now).year,
     mon  |-> MonthAbbr[get_vietnam_time(now).month]]

\* variant: the header is written by every call
save_to_csv_always_header(fs, d, city_name, now) ==
    LET filepath == FilePath(city_name, now)
        old == IF filepath \in DOMAIN fs THEN fs[filepath] ELSE <<>>
    IN  [f \in DOMAIN fs \cup {filepath} |->
            IF f = filepath THEN old \o <<HeaderLine, RowLine(d)>> ELSE fs[f]]

\* the file system after save_to_csv(data, city_name) returns
save_to_csv(fs, d, city_name, now) ==
    LET filepath == FilePath(city_name, now)
        file_exists == filepath \in DOMAIN fs
        written == IF file_exists THEN <<RowLine(d)>> ELSE <<HeaderLine, RowLine(d)>>
    IN  [f \in DOMAIN fs \cup {filepath} |->
            IF f = filepath
            THEN (IF file_exists THEN fs[f] ELSE <<>>) \o written
            ELSE fs[f]]

----------------------------------------------------------------------------
(* crawl_all_cities *)

CITIES == <<
    [name |-> "hanoi",            display_name |-> "Ha Noi"],
    [name |-> "hai-phong",        display_name |-> "Hai Phong"],
    [name |-> "bac-ninh",         display_name |-> "Bac Ninh"],
    [name |-> "vinh",             display_name |-> "Vinh"],
    [name |-> "hue",              display_name |-> "Hue"],
    [name |-> "da-nang",          display_name |-> "Da Nang"],
    [name |-> "nha-trang",        display_name |-> "Nha Trang"],
    [name |-> "da-lat",           display_name |-> "Da Lat"],
    [name |-> "phan-thiet",       display_name |-> "Phan Thiet"],
    [name |-> "ho-chi-minh-city", display_name |-> "Ho Chi Minh"],
    [name |-> "vung-tau",         display_name |-> "Ho Chi Minh"],
    [name |-> "can-tho",          display_name |-> "Can Tho"] >>

\* The run is modelled over NumCities consecutive entries of CITIES, from
\* ho-chi-minh-city on, so that two entries sharing a display name are among them.
Registry == SubSeq(CITIES, 10, 10 + NumCities - 1)

max_retries == 3

\* Page contents the site may serve
IconNew == <<"", "dl", "assets", "svg", "weather", "ic-weather-01n.svg">>
IconOld == <<"", "dl", "web", "weather", "ic-weather-01d.png">>
IconForeign == <<"https:", "", "cdn.example", "ic-weather-01.svg">>

\* "42A 7.1 km/h 95 %"
TextGood == <<"4", "2", "A", " ", "7", ".", "1", " ", "k", "m", "/", "h", " ", "9", "5", " ", "%">>
\* "A42 7.1 km/h 95%": no leading digits
TextNoAqi == <<"A", "4", "2", " ", "7", ".", "1", " ", "k", "m", "/", "h", " ", "9", "5", "%">>
\* "900 7 km/h 40%": AQI out of range
TextAqi900 == <<"9", "0", "0", " ", "7", " ", "k", "m", "/", "h", " ", "4", "0", "%">>
\* "42 7. km/h 95%": extracted "7. km/h" does not validate
TextBadWind == <<"4", "2", " ", "7", ".", " ", "k", "m", "/", "h", " ", "9", "5", "%">>
\* "42 7 km/h": no humidity
TextNoHumidity == <<"4", "2", " ", "7", " ", "k", "m", "/", "h">>
\* "42 7 km/h 95<TAB>%": the tab survives replace(' ', '')
TextTabHumidity == <<"4", "2", " ", "7", " ", "k", "m", "/", "h", " ", "9", "5", "\t", "%">>
\* "0 7km/h 250%"
TextHumidity250 == <<"0", " ", "7", "k", "m", "/", "h", " ", "2", "5", "0", "%">>

Pages ==
    { [box |-> TextGood, icon |-> IconNew],
      [box |-> TextGood, icon |-> IconForeign],
      [box |-> TextGood, icon |-> None],
      [box |-> None, icon |-> IconNew],
      [box |-> TextNoAqi, icon |-> IconNew],
      [box |-> TextAqi900, icon |-> IconNew],
      [box |-> TextBadWind, icon |-> IconNew],
      [box |-> TextNoHumidity, icon |-> IconNew],
      [box |-> TextTabHumidity, icon |-> IconNew],
      [box |-> TextHumidity250, icon |-> IconOld] }

NoPage == [box |-> None, icon |-> None]

StartClock == 11 * InstantsPerMonth

\* A row written by an earlier run, in the file of the month of StartClock
EarlierRow(c) ==
    RowLine([timestamp |-> isoformat(get_vietnam_time(StartClock)),
             city |-> c.display_name,
             aqi |-> <<"5", "0">>,
             weather_icon |-> IconNew,
             wind_speed |-> <<"3", " ">> \o KmH,
             humidity |-> <<"8", "0", "%">>])

\* The files left by earlier runs: the first city has a file for the month of
\* StartClock, the other cities have none yet
EarlierFiles ==
    [f \in {FilePath(Registry[1].name, StartClock)} |->
        <<HeaderLine, EarlierRow(Registry[1])>>]

Init ==
    /\ pc = "for_city"
    /\ cityIdx = 0
    /\ attempt = -1
    /\ success = FALSE
    /\ playwright = "none"
    /\ browser = "none"
    /\ page = NoPage
    /\ data = NoData
    /\ results = <<>>
    /\ files = EarlierFiles
    /\ clock = StartClock
    /\ outcome = "none"
    /\ saveFaults = 0
    /\ slept = 0
    /\ visited = <<>>
    /\ calls = <<>>
    /\ arg = None
    /\ ret = None

Running == pc \notin {"done"}

\* the wall clock advances between any two steps
Tick ==
    /\ Running
    /\ clock < StartClock + MaxTicks
    /\ clock' = clock + 1
    /\ UNCHANGED <<pc, crawlVars, files, calls, arg, ret>>

\* for city in CITIES: ... success = False        (return results when exhausted)
ForCity ==
    /\ pc = "for_city"
    /\ IF cityIdx < NumCities
       THEN /\ cityIdx' = cityIdx + 1
            /\ success' = FALSE
            /\ attempt' = -1
            /\ slept' = 0
            /\ visited' = Append(visited, Registry[cityIdx + 1].name)
            /\ pc' = "for_attempt"
       ELSE /\ pc' = "done"
            /\ UNCHANGED <<cityIdx, success, attempt, slept, visited>>
    /\ UNCHANGED <<playwright, browser, page, data, results, files, clock, outcome,
                   calls, saveFaults, arg, ret>>

\* for attempt in range(max_retries): if success: break; playwright = None; browser = None
ForAttempt ==
    /\ pc = "for_attempt"
    /\ IF attempt + 1 < max_retries
       THEN /\ attempt' = attempt + 1
            /\ IF success
               THEN /\ pc' = "for_city"
                    /\ UNCHANGED <<playwright, browser, outcome>>
               ELSE /\ pc' = "try"
                    /\ playwright' = "none"
                    /\ browser' = "none"
                    /\ outcome' = "none"
       ELSE /\ pc' = "for_city"
            /\ UNCHANGED <<attempt, playwright, browser, outcome>>
    /\ UNCHANGED <<cityIdx, success, page, data, results, files, clock, slept,
                   visited, calls, saveFaults, arg, ret>>

\* playwright = sync_playwright().start()
StartPlaywright ==
    /\ pc = "try"
    /\ \/ /\ playwright' = "started"
          /\ pc' = "launch"
          /\ UNCHANGED outcome
       \/ /\ outcome' = "exception"
          /\ pc' = "except"
          /\ UNCHANGED playwright
    /\ UNCHANGED <<cityIdx, attempt, success, browser, page, data, results, files,
                   clock, slept, visited, calls, saveFaults, arg, ret>>

\* browser = playwright.chromium.launch(...)
LaunchBrowser ==
    /\ pc = "launch"
    /\ \/ /\ browser' = "open"
          /\ pc' = "crawl"
          /\ UNCHANGED outcome
       \/ /\ outcome' = "exception"
          /\ pc' = "except"
          /\ UNCHANGED browser
    /\ UNCHANGED <<cityIdx, attempt, success, playwright, page, data, results, files,
                   clock, slept, visited, calls, saveFaults, arg, ret>>

\* context, page, data = crawl_city_data(page, city); if data: results.append(data)
\* else: success = True.  Any call up to the extraction may raise.
CrawlCityData ==
    /\ pc = "crawl"
    /\ \/ /\ outcome' = "exception"
          /\ pc' = "except"
          /\ UNCHANGED <<page, data, results, success>>
       \/ \E p \in Pages :
            /\ page' = p
            /\ data' = crawl_city_data(p, Registry[cityIdx], clock)
            /\ IF data' # NoData
               THEN /\ results' = Append(results, data')
                    /\ pc' = "save"
                    /\ UNCHANGED <<success, outcome>>
               ELSE /\ success' = TRUE
                    /\ outcome' = "rejected"
                    /\ pc' = "finally"
                    /\ UNCHANGED results
    /\ UNCHANGED <<cityIdx, attempt, playwright, browser, files, clock, slept,
                   visited, calls, saveFaults, arg, ret>>

\* csv_file = save_to_csv(data, city['name']); success = True
\* mkdir or open may raise before anything is written (at most MaxSaveFaults times)
SaveToCsv ==
    /\ pc = "save"
    /\ \/ /\ files' = save_to_csv(files, data, Registry[cityIdx].name, clock)
          /\ calls' = Append(calls, [path |-> FilePath(Registry[cityIdx].name, clock),
                                     line |-> RowLine(data)])
          /\ success' = TRUE
          /\ outcome' = "written"
          /\ pc' = "finally"
          /\ UNCHANGED saveFaults
       \/ /\ saveFaults < MaxSaveFaults
          /\ saveFaults' = saveFaults + 1
          /\ outcome' = "exception"
          /\ pc' = "except"
          /\ UNCHANGED <<files, calls, success>>
    /\ UNCHANGED <<cityIdx, attempt, playwright, browser, page, data, results, clock,
                   slept, visited, arg, ret>>

\* variant: sleeps after every failed attempt
ExceptHandlerNoLimit ==
    /\ pc = "except"
    /\ slept' = slept + 1
    /\ pc' = "finally"
    /\ UNCHANGED <<cityIdx, attempt, success, playwright, browser, page, data, results,
                   files, clock, outcome, visited, calls, saveFaults, arg, ret>>

\* variant: the exception of the last attempt ends the run
ExceptHandlerReraise ==
    /\ pc = "except"
    /\ slept' = IF attempt < max_retries - 1 THEN slept + 1 ELSE slept
    /\ pc' = IF attempt < max_retries - 1 THEN "finally" ELSE "done"
    /\ UNCHANGED <<cityIdx, attempt, success, playwright, browser, page, data, results,
                   files, clock, outcome, visited, calls, saveFaults, arg, ret>>

\* except Exception as e: if attempt < max_retries - 1: time_module.sleep(2)
ExceptHandler ==
    /\ pc = "except"
    /\ slept' = IF attempt < max_retries - 1 THEN slept + 1 ELSE slept
    /\ pc' = "finally"
    /\ UNCHANGED <<cityIdx, attempt, success, playwright, browser, page, data, results,
                   files, clock, outcome, visited, calls, saveFaults, arg, ret>>

\* finally: try: if browser: browser.close()       (except Exception: pass)
\* The page belongs to the browser and is gone once close() was called.
CloseBrowser ==
    /\ pc = "finally"
    /\ IF browser = "open"
       THEN \/ /\ browser' = "closed"
               /\ pc' = "stop"
            \/ /\ browser' = "close_failed"
               /\ pc' = "for_attempt"
       ELSE /\ pc' = "stop"
            /\ UNCHANGED browser
    /\ page' = NoPage
    /\ UNCHANGED <<cityIdx, attempt, success, playwright, data, results, files,
                   clock, outcome, slept, visited, calls, saveFaults, arg, ret>>

\* if playwright: playwright.stop()                 (except Exception: pass)
StopPlaywright ==
    /\ pc = "stop"
    /\ IF playwright = "started"
       THEN playwright' \in {"stopped", "stop_failed"}
       ELSE UNCHANGED playwright
    /\ pc' = "for_attempt"
    /\ UNCHANGED <<cityIdx, attempt, success, browser, page, data, results, files,
                   clock, outcome, slept, visited, calls, saveFaults, arg, ret>>

Step ==
    \/ ForCity
    \/ ForAttempt
    \/ StartPlaywright
    \/ LaunchBrowser
    \/ CrawlCityData
    \/ SaveToCsv
    \/ ExceptHandler
    \/ CloseBrowser
    \/ StopPlaywright

Next == Step \/ Tick

Spec == Init /\ [][Next]_vars

\* the single thread of control always takes its next step (every wait has a timeout)
FairSpec == Spec /\ WF_vars(Step)

----------------------------------------------------------------------------
(* save_to_csv called repeatedly *)

EmptyFiles == [f \in {} |-> <<>>]

\* the records crawl_city_data can return for city i at instant t
Readings ==
    [i \in 1..NumCities, t \in StartClock..(StartClock + MaxTicks) |->
        {crawl_city_data(p, Registry[i], t) : p \in Pages} \ {NoData}]

InitCsv ==
    /\ pc = "csv"
    /\ files \in {EmptyFiles, EarlierFiles}
    /\ arg = files
    /\ clock = StartClock
    /\ calls = <<>>
    /\ ret = None
    /\ cityIdx = 0
    /\ attempt = -1
    /\ success = FALSE
    /\ playwright = "none"
    /\ browser = "none"
    /\ page = NoPage
    /\ data = NoData
    /\ results = <<>>
    /\ outcome = "none"
    /\ saveFaults = 0
    /\ slept = 0
    /\ visited = <<>>

\* one call save_to_csv(d, city['name']) that returns, d being a record that
\* crawl_city_data returned for that city at an instant up to now
CallSaveToCsv ==
    /\ pc = "csv"
    /\ Len(calls) < MaxCalls
    /\ \E i \in 1..NumCities, t \in StartClock..clock :
         \E d \in Readings[i, t] :
         /\ files' = save_to_csv(files, d, Registry[i].name, clock)
         /\ calls' = Append(calls, [path |-> FilePath(Registry[i].name, clock),
                                    line |-> RowLine(d)])
    /\ UNCHANGED <<pc, crawlVars, clock, arg, ret>>

NextCsv == CallSaveToCsv \/ Tick

SpecCsv == InitCsv /\ [][NextCsv]_vars

----------------------------------------------------------------------------
(* validate_aqi applied to one raw string *)

AqiAlphabet == {"0", "1", "5", "a", "-"}

RawStrings == UNION {[1..n -> AqiAlphabet] : n \in 0..MaxAqiLen}

InitAqi ==
    /\ pc = "call"
    /\ arg \in RawStrings
    /\ ret = None
    /\ files = EmptyFiles
    /\ clock = StartClock
    /\ calls = <<>>
    /\ cityIdx = 0
    /\ attempt = -1
    /\ success = FALSE
    /\ playwright = "none"
    /\ browser = "none"
    /\ page = NoPage
    /\ data = NoData
    /\ results = <<>>
    /\ outcome = "none"
    /\ saveFaults = 0
    /\ slept = 0
    /\ visited = <<>>

CallValidateAqi ==
    /\ pc = "call"
    /\ ret' = validate_aqi(arg)
    /\ pc' = "done"
    /\ UNCHANGED <<crawlVars, files, clock, calls, arg>>

NextAqi == CallValidateAqi

SpecAqi == InitAqi /\ [][NextAqi]_vars

----------------------------------------------------------------------------
(* generate_chart.py *)

WindowDays == 30

ChartCities == {"Ho Chi Minh", "Can Tho"}

\* a row of the combined DataFrame; timestamps are in days
ChartRows == [city : ChartCities, timestamp : 0..MaxDay]

Datasets == UNION {[1..n -> ChartRows] : n \in 0..MaxRows}

Max(S) == CHOOSE x \in S : \A y \in S : y <= x

\* df['timestamp'].max() of the rows of one city
CityMax(df, c) == Max({df[i].timestamp : i \in {j \in 1..Len(df) : df[j].city = c}})

\* variant: the window ends at each city's own latest timestamp
GenerateChartsPerCity(df) ==
    LET Recent(r) == r.timestamp >= CityMax(df, r.city) - WindowDays
        df_month == SelectSeq(df, Recent)
    IN  [c \in {df_month[i].city : i \in 1..Len(df_month)} |->
            LET OfCity(r) == r.city = c
                city_data == SelectSeq(df_month, OfCity)
            IN  [i \in 1..Len(city_data) |-> city_data[i].timestamp]]

\* the script from last_date on: the points plotted in each city's chart, by city;
\* max() of an empty frame is NaT and no row compares >= NaT
GenerateCharts(df) ==
    LET last_date == Max({df[i].timestamp : i \in 1..Len(df)})
        one_month_ago == last_date - WindowDays
        Recent(r) == r.timestamp >= one_month_ago
        df_month == IF df = <<>> THEN <<>> ELSE SelectSeq(df, Recent)
    IN  [c \in {df_month[i].city : i \in 1..Len(df_month)} |->
            LET OfCity(r) == r.city = c
                city_data == SelectSeq(df_month, OfCity)
            IN  [i \in 1..Len(city_data) |-> city_data[i].timestamp]]

InitChart ==
    /\ pc = "chart"
    /\ arg \in Datasets
    /\ ret = None
    /\ files = EmptyFiles
    /\ clock = StartClock
    /\ calls = <<>>
    /\ cityIdx = 0
    /\ attempt = -1
    /\ success = FALSE
    /\ playwright = "none"
    /\ browser = "none"
    /\ page = NoPage
    /\ data = NoData
    /\ results = <<>>
    /\ outcome = "none"
    /\ saveFaults = 0
    /\ slept = 0
    /\ visited = <<>>

RunGenerateChart ==
    /\ pc = "chart"
    /\ ret' = GenerateCharts(arg)
    /\ pc' = "done"
    /\ UNCHANGED <<crawlVars, files, clock, calls, arg>>

NextChart == RunGenerateChart

SpecChart == InitChart /\ [][NextChart]_vars

----------------------------------------------------------------------------
(* Properties *)

Lines(fs) == UNION {{fs[f][i] : i \in 1..Len(fs[f])} : f \in DOMAIN fs}

RowsOf(content) == {content[i] : i \in {j \in 1..Len(content) : content[j].kind = "row"}}

\* the four raw fields of page p are all present and all pass their validators
AllFieldsValid(p) ==
    /\ p.box # None
    /\ ExtractAqi(p.box) # None /\ validate_aqi(ExtractAqi(p.box)) # None
    /\ p.icon # None /\ validate_weather_icon(p.icon) # None
    /\ ExtractWind(p.box) # None /\ validate_wind_speed(ExtractWind(p.box)) # None
    /\ ExtractHumidity(p.box) # None /\ validate_humidity(ExtractHumidity(p.box)) # None

\* the lines file f gains in a step
NewLines(f) ==
    IF f \in DOMAIN files
    THEN SubSeq(files'[f], Len(files[f]) + 1, Len(files'[f]))
    ELSE files'[f]

\* C1: no partial record is persisted.  When crawl_city_data returns for a page on
\* which a field is absent or fails its validator, it returns no record, nothing is
\* appended to results and the attempt goes to cleanup; a step that changes a file
\* happens only for a page whose four fields all validate, and the only row it adds
\* holds the four validated fields of that page.
C1_NoPartialRecord ==
    [][ /\ (pc = "crawl" /\ pc' \in {"save", "finally"} /\ ~AllFieldsValid(page'))
            => (data' = NoData /\ results' = results /\ pc' = "finally")
        /\ (files' # files)
            => /\ AllFieldsValid(page)
               /\ data # NoData
               /\ \A f \in DOMAIN files' :
                    RowsOf(NewLines(f)) \subseteq
                        { [kind |-> "row",
                           cells |-> <<data.timestamp, data.city,
                                       validate_aqi(ExtractAqi(page.box)),
                                       validate_weather_icon(page.icon),
                                       validate_wind_speed(ExtractWind(page.box)),
                                       validate_humidity(ExtractHumidity(page.box))>>] }
      ]_vars

\* an attempt rejected a page with three valid fields and one invalid one, and no file changed
C1_Witness ==
    /\ pc = "finally"
    /\ outcome = "rejected"
    /\ page.box = TextBadWind
    /\ page.icon = IconNew
    /\ files = EarlierFiles
    /\ results = <<>>

\* C2: per city the attempts are numbered 0..2 (1 to 3 attempts); a further attempt
\* starts only after an attempt that ended with an exception; an attempt that ended
\* without an exception is the last one; the city is left after 1 to 3 attempts;
\* the except handler sleeps exactly when attempts remain.
C2_RetryController ==
    [][ /\ (pc = "for_attempt" /\ pc' = "try")
            => /\ attempt' = attempt + 1
               /\ attempt' \in 0..(max_retries - 1)
               /\ (attempt' > 0 => outcome = "exception")
        /\ (pc = "for_attempt" /\ attempt >= 0 /\ outcome \in {"written", "rejected"})
            => pc' # "try"
        /\ (pc = "for_attempt" /\ pc' = "for_city")
            => /\ attempt \in 0..(max_retries - 1)
               /\ \/ outcome \in {"written", "rejected"}
                  \/ (outcome = "exception" /\ attempt = max_retries - 1)
        /\ (pc = "except" /\ pc' # "except")
            => /\ outcome = "exception"
               /\ slept' = IF attempt + 1 < max_retries THEN slept + 1 ELSE slept
        /\ (pc # "except" /\ pc # "for_city") => slept' = slept
        /\ slept' <= max_retries - 1
      ]_vars

\* the third attempt of a city failed after two sleeps
C2_Witness ==
    /\ pc = "finally"
    /\ attempt = max_retries - 1
    /\ outcome = "exception"
    /\ slept = max_retries - 1

RegistryNames == [i \in 1..NumCities |-> Registry[i].name]

\* C3: every city of the registry is processed exactly once, in registry order, a
\* city starting only when the previous city's attempts and cleanup are over; and
\* the run terminates.
C3_EveryCityOnceInOrder ==
    /\ [][ (cityIdx' # cityIdx)
            => /\ pc = "for_city"
               /\ cityIdx' = cityIdx + 1
               /\ visited' = Append(visited, Registry[cityIdx'].name)
               /\ (cityIdx > 0 => (attempt >= 0 /\ (success \/ attempt = max_retries - 1)))
         ]_vars
    /\ [](pc = "done" => visited = RegistryNames)
    /\ [](pc \in {"try", "launch", "crawl", "save", "except", "finally", "stop"}
            => (cityIdx = Len(visited) /\ visited = SubSeq(RegistryNames, 1, cityIdx)))
    /\ <>(pc = "done")

\* the run returned although every attempt of the last city raised
C3_Witness ==
    /\ pc = "done"
    /\ visited = RegistryNames
    /\ outcome = "exception"
    /\ attempt = max_retries - 1
    /\ results = <<>>

\* C4: once the cleanup of an attempt is over, the browser launched in it is not
\* left open without close() and the driver started in it is not left running
\* without stop().
C4_CleanupReleasesAll ==
    (pc \in {"for_attempt", "for_city", "done"})
        => (browser # "open" /\ playwright # "started")

\* h is "<n>%" with n an integer in 0..100
HumidityInRange(h) ==
    /\ Len(h) \in 2..4
    /\ h[Len(h)] = "%"
    /\ \A i \in 1..(Len(h) - 1) : IsDigit(h[i])
    /\ ParseInt(SubSeq(h, 1, Len(h) - 1)) <= 100

\* C7: the humidity of every record and of every persisted row is "<n>%", 0 <= n <= 100
C7_HumidityPercent ==
    /\ data # NoData => HumidityInRange(data.humidity)
    /\ \A l \in Lines(files) : l.kind = "row" => HumidityInRange(l.cells[6])

\* C9: every row of a file carries a timestamp of the file's year and month
C9_RowMonthMatchesFile ==
    \A f \in DOMAIN files : \A l \in RowsOf(files[f]) :
        /\ l.cells[1][1] = f.year
        /\ MonthAbbr[l.cells[1][2]] = f.mon

\* C10: when the run returns, each city has contributed at most one record to
\* results and the records of results are exactly the rows persisted
C10_ResultsArePersistedRows ==
    (pc = "done")
        => /\ Len(results) <= NumCities
           /\ [i \in 1..Len(results) |-> RowLine(results[i])]
                = [i \in 1..Len(calls) |-> calls[i].line]

\* the data lines of the returned calls on file f, in call order
CallsOn(f) ==
    LET On(c) == c.path = f
        mine == SelectSeq(calls, On)
    IN  [i \in 1..Len(mine) |-> mine[i].line]

\* C5: every file is its initial content (or one header line when it was absent)
\* followed by one data line per returned call on it, in call order; its first
\* line is the header and no other line is
C5_AppendOnlyHeaderFirst ==
    /\ DOMAIN files = DOMAIN arg \cup {calls[i].path : i \in 1..Len(calls)}
    /\ \A f \in DOMAIN files :
        /\ files[f] = (IF f \in DOMAIN arg THEN arg[f] ELSE <<HeaderLine>>) \o CallsOn(f)
        /\ files[f][1] = HeaderLine
        /\ \A i \in 2..Len(files[f]) : files[f][i].kind = "row"

\* a file created by the calls holds two rows, and a file that existed has gained one
C5_Witness ==
    /\ pc = "csv"
    /\ \E f \in DOMAIN files \ DOMAIN arg : Len(files[f]) >= 3
    /\ \E f \in DOMAIN arg : Len(files[f]) > Len(arg[f])

----------------------------------------------------------------------------
(* validate_aqi *)

\* the maximal runs of digits of s, as pairs of first and last index
DigitRuns(s) ==
    {<<i, j>> \in (1..Len(s)) \X (1..Len(s)) :
        /\ i <= j
        /\ \A k \in i..j : IsDigit(s[k])
        /\ (i = 1 \/ ~IsDigit(s[i - 1]))
        /\ (j = Len(s) \/ ~IsDigit(s[j + 1]))}

\* the number a string of digits denotes, by place value
PlaceValue(ds) ==
    LET Sum[k \in 0..Len(ds)] ==
            IF k = 0 THEN 0 ELSE Sum[k - 1] + DigitVal(ds[k]) * 10 ^ (Len(ds) - k)
    IN  Sum[Len(ds)]

\* r is the decimal numeral of n: digits only, no leading zero, place value n
IsDecimalOf(r, n) ==
    /\ r # None
    /\ Len(r) >= 1
    /\ \A k \in 1..Len(r) : IsDigit(r[k])
    /\ (Len(r) > 1 => r[1] # "0")
    /\ PlaceValue(r) = n

RunValue(s, run) == PlaceValue(SubSeq(s, run[1], run[2]))

\* C6 as stated: a raw string holding a run of digits that forms a number in
\* [0,500] validates to the numeral of such a run; any other string is rejected
C6_AsStated ==
    (pc = "done") =>
        LET good == {run \in DigitRuns(arg) : RunValue(arg, run) <= 500}
        IN  IF good # {}
            THEN \E run \in good : IsDecimalOf(ret, RunValue(arg, run))
            ELSE ret = None

AllDigits(s) == SelectSeq(s, IsDigit)

\* C6 amended: the digits of the raw string, taken together in order, decide: if
\* there is at least one digit and they denote a number in [0,500], the result is
\* the decimal numeral of that number; otherwise the string is rejected

C6_DigitsTogether ==
    (pc = "done") =>
        IF AllDigits(arg) # <<>> /\ PlaceValue(AllDigits(arg)) <= 500
        THEN IsDecimalOf(ret, PlaceValue(AllDigits(arg)))
        ELSE ret = None

\* "500" validated to "500"
C6_Witness ==
    /\ pc = "done"
    /\ arg = <<"5", "0", "0">>
    /\ ret = <<"5", "0", "0">>

----------------------------------------------------------------------------
(* generate_chart.py *)

\* row i of the dataset lies in the window of the 30 days up to the latest
\* timestamp of the whole dataset
InWindow(df, i) == \A j \in 1..Len(df) : df[j].timestamp - WindowDays <= df[i].timestamp

Count(seq, x) == Cardinality({i \in 1..Len(seq) : seq[i] = x})

\* C8: the points charted are exactly the rows in the window of the whole dataset,
\* each in the chart of its city, and the cities charted are those with a row in it
C8_GlobalWindow ==
    (pc = "done") =>
        /\ DOMAIN ret = {arg[i].city : i \in {j \in 1..Len(arg) : InWindow(arg, j)}}
        /\ \A c \in ChartCities, t \in 0..MaxDay :
             (IF c \in DOMAIN ret THEN Count(ret[c], t) ELSE 0)
               = Cardinality({i \in 1..Len(arg) :
                    arg[i].city = c /\ arg[i].timestamp = t /\ InWindow(arg, i)})

\* one city's only row is exactly 30 days older than the other's: both are charted
C8_Witness ==
    /\ pc = "done"
    /\ Len(arg) = 2
    /\ arg[1].city # arg[2].city
    /\ arg[1].timestamp + WindowDays = arg[2].timestamp
    /\ DOMAIN ret = ChartCities

====
